---- MODULE Spec2Model ----
(***************************************************************************)
(* Model of the AnalogLens colour-grading pipeline (src/src/app/page.tsx): *)
(* applyClientSideFilter (style preset + scene adjustment -> target        *)
(* filters -> intensity interpolation -> CSS filter chain -> encoding) and *)
(* createLowResPreview (bounded-dimension resampling + encoding fallback). *)
(* Spec runs one call at a time on every input, SpecCalls interleaves the  *)
(* blocks of concurrent grading calls, SpecPage is the page component Home *)
(* with its handlers and the callbacks they leave pending.                 *)
(*                                                                         *)
(* Numbers.  Filter magnitudes are decimal fractions; they are kept as     *)
(* exact fixed-point integers: a magnitude m is the integer m * Unit, and  *)
(* an interpolated value v is the integer v * Unit * Percent.  The code    *)
(* computes in IEEE-754 doubles, whose rounding error is far below one     *)
(* fixed-point step; it can change a result only where the exact value     *)
(* sits exactly on a decision boundary (the 0.001 threshold, a toFixed(3)  *)
(* or Math.round tie).  There the model allows both outcomes.              *)
(***************************************************************************)
EXTENDS Integers, Sequences, FiniteSets, TLC

VARIABLES
    pc,             \* which call the harness has just made: "idle", "graded", "resolved", "resampled"
    style,          \* applyClientSideFilter argument `style`
    scene,          \* applyClientSideFilter argument `scene`
    intensity,      \* applyClientSideFilter argument `intensity`
    mimeType,       \* applyClientSideFilter argument `mimeType`
    override,       \* external override handed to the resolver (NoOverride when absent)
    targetFilters,  \* local `targetFilters`: the target values at 100% intensity
    filterString,   \* local `filterString`: the emitted operations, in order
    ctxFilter,      \* ctx.filter as assigned before drawImage
    gradeResult,    \* how the promise of applyClientSideFilter settled
    naturalWidth,   \* img.naturalWidth of the image handed to either function
    naturalHeight,  \* img.naturalHeight
    maxDimension,   \* createLowResPreview argument `maxDimension`
    canvasSize,     \* <<canvas.width, canvas.height>> of the canvas that was drawn
    previewResult,  \* how the promise of createLowResPreview settled
    calls,          \* concurrent grading calls: the arguments, position and promise of each
    frames,         \* concurrent grading calls: the locals of each promise executor
    selectedFile,       \* Home state selectedFile: the imported file, 0 for null
    originalDataUrl,    \* Home state originalDataUrl (and its ref): the file it encodes, 0 for null
    previewUrl,         \* Home state previewUrl: the file it shows, 0 for null
    filteredUrl,        \* Home state filteredUrl: the stored graded image
    filteredPreviewUrl, \* Home state filteredPreviewUrl: the graded image it was made from
    analogStyle,        \* Home state analogStyle and analogStyleRef.current
    sceneCategory,      \* Home state sceneCategory and sceneCategoryRef.current
    filterIntensity,    \* Home state filterIntensity and intensityRef.current
    isLoading,          \* Home state isLoading
    timeoutId,          \* debounce: TRUE while the timer of debouncedApplyFilter is pending
    imports,            \* the handleFileChange calls in flight, oldest first
    gradings,           \* the handleApplyFilter calls waiting for img.onload, oldest first
    previews,           \* the filteredImgForPreview loads in flight, oldest first
    latest,             \* history: the most recently initiated grading call
    download,           \* the download the last event triggered, if it was an export
    toast,              \* the title of the destructive toast the last event raised, if any
    staleTimeouts,      \* pending timers of debounce closures that a render has replaced
    events              \* how many times the user has picked a file, a value or Re-apply

\* the variables of the single-call harness
harnessVars == <<pc, style, scene, intensity, mimeType, override, targetFilters, filterString,
                 ctxFilter, gradeResult, naturalWidth, naturalHeight, maxDimension, canvasSize,
                 previewResult>>

\* the variables of the concurrent grading calls
callVars == <<calls, frames>>

\* the variables of the page component
pageVars == <<selectedFile, originalDataUrl, previewUrl, filteredUrl, filteredPreviewUrl,
              analogStyle, sceneCategory, filterIntensity, isLoading, timeoutId, imports,
              gradings, previews, latest, download, toast, staleTimeouts, events>>

vars == <<harnessVars, callVars, pageVars>>

----------------------------------------------------------------------------
(* Fixed-point scales *)

\* intensity is a percentage: intensityFactor = intensity / Percent
Percent == 100
\* one unit of a filter magnitude is 1/Unit (1.05 is 10500, 15 degrees is 150000)
Unit == Percent * Percent
\* an interpolated value v is the integer v * Fine (a magnitude times a percentage)
Fine == Unit * Percent
\* toFixed(3) keeps thousandths: one emitted step is Fine \div Milli
Milli == 10 * Percent

\* a JavaScript object literal with no own keys
EmptyObject == [k \in {} |-> 0]

\* mutant: an absent key reads as 0 whatever the fallback
GetOrZero(obj, key, dflt) == IF key \in DOMAIN obj THEN obj[key] ELSE 0

\* obj[key] ?? dflt
Get(obj, key, dflt) == IF key \in DOMAIN obj THEN obj[key] ELSE dflt

Abs(x) == IF x < 0 THEN -x ELSE x

----------------------------------------------------------------------------
(* The tables of applyClientSideFilter *)

\* const filters: style name -> the non-neutral operations of the preset, in 1/Unit
filters ==
       "Kodak Portra 400" :> ("contrast" :> 11000 @@ "saturate" :> 11000 @@ "brightness" :> 10500 @@ "sepia" :> 1000)
    @@ "Fujifilm Velvia 50" :> ("saturate" :> 14000 @@ "contrast" :> 12000 @@ "brightness" :> 9500)
    @@ "Ilford HP5 Plus 400" :> ("grayscale" :> 10000 @@ "contrast" :> 12000 @@ "brightness" :> 11000)
    @@ "CineStill 800T" :> ("contrast" :> 11500 @@ "brightness" :> 10000 @@ "sepia" :> 1000 @@ "hue-rotate" :> -100000 @@ "saturate" :> 11000)
    @@ "Agfa Vista 200" :> ("contrast" :> 10500 @@ "saturate" :> 11500 @@ "brightness" :> 10000 @@ "sepia" :> 1500)
    @@ "Lomography Color Negative 400" :> ("saturate" :> 13000 @@ "contrast" :> 11000 @@ "brightness" :> 10000)
    @@ "Classic Teal & Orange LUT" :> ("contrast" :> 11000 @@ "sepia" :> 2000 @@ "hue-rotate" :> -150000 @@ "saturate" :> 12000)
    @@ "Vintage Sepia Tone" :> ("sepia" :> 7000 @@ "contrast" :> 10500 @@ "brightness" :> 9500)
    @@ "Cool Cinematic Look" :> ("contrast" :> 11000 @@ "brightness" :> 9500 @@ "hue-rotate" :> -100000 @@ "saturate" :> 11000)
    @@ "Warm Golden Hour LUT" :> ("sepia" :> 2500 @@ "contrast" :> 10500 @@ "brightness" :> 11000 @@ "saturate" :> 11000)
    @@ "High Contrast B&W" :> ("grayscale" :> 10000 @@ "contrast" :> 15000 @@ "brightness" :> 10000)
    @@ "Faded Vintage Film" :> ("saturate" :> 8000 @@ "contrast" :> 9000 @@ "brightness" :> 11000 @@ "sepia" :> 2000)
    @@ "Vibrant Summer Day" :> ("saturate" :> 13000 @@ "brightness" :> 10500 @@ "contrast" :> 10500)
    @@ "Cross Processed Look" :> ("saturate" :> 12000 @@ "contrast" :> 11000 @@ "hue-rotate" :> 150000 @@ "brightness" :> 9500)
    @@ "Technicolor Dream" :> ("saturate" :> 16000 @@ "contrast" :> 11000 @@ "brightness" :> 10000 @@ "hue-rotate" :> 100000)
    @@ "Bleach Bypass" :> ("contrast" :> 14000 @@ "saturate" :> 7000 @@ "brightness" :> 10500)
    @@ "Infrared Simulation" :> ("hue-rotate" :> 1800000 @@ "saturate" :> 12000 @@ "contrast" :> 11000 @@ "brightness" :> 11000)
    @@ "Grungy Matte Look" :> ("contrast" :> 9000 @@ "saturate" :> 9000 @@ "brightness" :> 10500 @@ "sepia" :> 1000)
    @@ "Neon Noir" :> ("contrast" :> 13000 @@ "brightness" :> 9000 @@ "saturate" :> 14000 @@ "hue-rotate" :> -200000)
    @@ "None" :> EmptyObject

\* const defaults: the value of every operation at 0% intensity, in 1/Unit
defaults ==
       "contrast" :> 10000
    @@ "saturate" :> 10000
    @@ "brightness" :> 10000
    @@ "sepia" :> 0
    @@ "grayscale" :> 0
    @@ "hue-rotate" :> 0

\* Object.keys(defaults): the insertion order of the literal
DefaultKeys == <<"contrast", "saturate", "brightness", "sepia", "grayscale", "hue-rotate">>

\* mutant: an unknown style falls back to the first preset of the table
StyleFiltersFirstPreset(style_) ==
    IF style_ \in DOMAIN filters THEN filters[style_] ELSE filters["Kodak Portra 400"]

\* let styleFilters = filters[style] || filters['None']
StyleFilters(style_) ==
    IF style_ \in DOMAIN filters THEN filters[style_] ELSE filters["None"]

\* switch (scene) { ... }: the factors and offsets of the scene, in 1/Unit
SceneAdjustments(scene_) ==
    CASE scene_ = "portrait" -> ("contrast" :> 9500 @@ "sepia" :> 500)
      [] scene_ = "landscape" -> ("contrast" :> 10500 @@ "saturate" :> 10500)
      [] scene_ = "flowers" -> ("saturate" :> 11000)
      [] scene_ = "street" -> ("contrast" :> 11000)
      [] scene_ = "waterland" -> ("brightness" :> 10500 @@ "saturate" :> 10500 @@ "hue-rotate" :> -50000)
      [] scene_ = "architecture" -> ("contrast" :> 11500 @@ "saturate" :> 9000)
      [] scene_ = "food" -> ("saturate" :> 11000 @@ "brightness" :> 10500 @@ "sepia" :> 500)
      [] scene_ = "general" -> EmptyObject
      [] OTHER -> EmptyObject

AdditiveFilters == {"sepia", "hue-rotate"}
MultiplicativeFilters == {"contrast", "saturate", "brightness", "grayscale"}

\* the clamps applied to a product: below 0 becomes 0, grayscale above 1 becomes 1
ClampProduct(filter, value) ==
    IF value < 0 THEN 0
    ELSE IF filter = "grayscale" /\ value > Unit THEN Unit
    ELSE value

\* mutant: the scene is combined with the neutral value instead of the style's value
AdjustedValueFromDefault(styleFilters, filter, adjustmentValue) ==
    LET baseValue == defaults[filter]
    IN  IF filter \in AdditiveFilters THEN baseValue + adjustmentValue
        ELSE ClampProduct(filter, (baseValue * adjustmentValue) \div Unit)

\* mutant: the scene's value is taken off the style's value, and nothing is clamped
AdjustedValueDifference(styleFilters, filter, adjustmentValue) ==
    Get(styleFilters, filter, defaults[filter]) - adjustmentValue

\* mutant: every operation, sepia and hue-rotate included, is multiplied by the scene's
\* value, and the product is not clamped
AdjustedValueMultiplied(styleFilters, filter, adjustmentValue) ==
    (Get(styleFilters, filter, defaults[filter]) \div Percent) * (adjustmentValue \div Percent)

\* one pass of the loop over Object.entries(sceneAdjustments)
AdjustedValue(styleFilters, filter, adjustmentValue) ==
    LET baseValue == Get(styleFilters, filter, defaults[filter])
    IN  IF filter \in AdditiveFilters THEN baseValue + adjustmentValue
        ELSE ClampProduct(filter, (baseValue * adjustmentValue) \div Unit)

\* let targetFilters = { ...styleFilters } followed by the loop: every key of the scene
\* is visited once, a key that is neither additive nor multiplicative is left alone
TargetFilters(style_, scene_) ==
    LET styleFilters == StyleFilters(style_)
        sceneAdjustments == SceneAdjustments(scene_)
        touched == DOMAIN sceneAdjustments \cap (AdditiveFilters \cup MultiplicativeFilters)
    IN  [filter \in DOMAIN styleFilters \cup touched |->
            IF filter \in touched
            THEN AdjustedValue(styleFilters, filter, sceneAdjustments[filter])
            ELSE styleFilters[filter]]

----------------------------------------------------------------------------
(* Intensity interpolation and the filter string *)

\* const targetValue = targetFilters[filter] ?? defaultValue, in 1/Unit
TargetValue(target, filter) == Get(target, filter, defaults[filter])

\* mutant: the interpolation runs from the target to the default
InterpolatedValueReversed(target, filter, intensity_) ==
    TargetValue(target, filter) * Percent
        + (defaults[filter] - TargetValue(target, filter)) * intensity_

\* mutant: the intensity moves the value in steps of ten percent
InterpolatedValueStepped(target, filter, intensity_) ==
    defaults[filter] * Percent
        + (TargetValue(target, filter) - defaults[filter]) * (10 * (intensity_ \div 10))

\* defaultValue + (targetValue - defaultValue) * intensityFactor, in 1/Fine
InterpolatedValue(target, filter, intensity_) ==
    defaults[filter] * Percent + (TargetValue(target, filter) - defaults[filter]) * intensity_

\* the 0.001 of the inclusion test, in 1/Fine
Epsilon == Fine \div Milli

\* The inclusion test of one filter.  A difference of exactly 0.001 is decided by the
\* rounding error of the double arithmetic: both outcomes are allowed there.
IncludeOutcomes(target, filter, intensity_) ==
    LET difference == Abs(InterpolatedValue(target, filter, intensity_) - defaults[filter] * Percent)
        hue == Abs(InterpolatedValue(target, filter, intensity_))
    IN  IF \/ difference > Epsilon
           \/ filter = "grayscale" /\ TargetValue(target, filter) = Unit
           \/ filter = "hue-rotate" /\ hue > Epsilon
        THEN {TRUE}
        ELSE IF difference = Epsilon THEN {TRUE, FALSE}
        ELSE {FALSE}

\* mutant: the value is cut down to a multiple of step
RoundOutcomesFloor(x, step) == {x \div step}

\* Rounding x (in 1/Fine) to a multiple of step: the nearest multiple, counted in steps.
\* An exact tie is decided by the rounding error of the double: both neighbours are allowed.
RoundOutcomes(x, step) ==
    LET lower == x \div step
        rest == x % step
    IN  IF 2 * rest < step THEN {lower}
        ELSE IF 2 * rest > step THEN {lower + 1}
        ELSE {lower, lower + 1}

\* mutant: toFixed(2), printed in thousandths
EmittedValuesTwoDecimals(target, filter, intensity_) ==
    IF filter = "hue-rotate"
    THEN RoundOutcomes(InterpolatedValue(target, filter, intensity_), Fine)
    ELSE {10 * v : v \in RoundOutcomes(InterpolatedValue(target, filter, intensity_),
                                        10 * (Fine \div Milli))}

\* Math.round(interpolatedValue) in degrees for hue-rotate, interpolatedValue.toFixed(3)
\* in thousandths for every other filter
EmittedValues(target, filter, intensity_) ==
    IF filter = "hue-rotate"
    THEN RoundOutcomes(InterpolatedValue(target, filter, intensity_), Fine)
    ELSE RoundOutcomes(InterpolatedValue(target, filter, intensity_), Fine \div Milli)

\* what one pass of the loop over Object.keys(defaults) appends to filterString
EntryOutcomes(target, filter, intensity_) ==
    LET include == IncludeOutcomes(target, filter, intensity_)
    IN  (IF FALSE \in include THEN {<<>>} ELSE {})
        \cup (IF TRUE \in include
              THEN {<<[filter |-> filter, value |-> v]>> : v \in EmittedValues(target, filter, intensity_)}
              ELSE {})

\* filterString after the first n passes of the loop
RECURSIVE FilterStrings(_, _, _)
FilterStrings(target, intensity_, n) ==
    IF n = 0 THEN {<<>>}
    ELSE {prefix \o entry :
            prefix \in FilterStrings(target, intensity_, n - 1),
            entry \in EntryOutcomes(target, DefaultKeys[n], intensity_)}

\* the CSS keyword none
NoneKeyword == [filter |-> "none", value |-> 0]

\* ctx.filter = filterString.trim() || 'none'
CtxFilter(filterString_) ==
    IF filterString_ = <<>> THEN <<NoneKeyword>> ELSE filterString_

----------------------------------------------------------------------------
(* Encoding: canvas.toDataURL as the platform provides it *)

\* the types the two functions ask toDataURL for
OutputTypes == {"image/png", "image/jpeg", "image/webp"}

\* What toDataURL does for one type on one platform: "ok" encodes in that type,
\* "unsupported" silently encodes PNG instead, "empty" returns the degenerate "data:,",
\* "throws" raises.  PNG is the one type every canvas supports.
Platforms ==
    {p \in [OutputTypes -> {"ok", "unsupported", "empty", "throws"}] :
        p["image/png"] \in {"ok", "throws"}}

\* a platform on which every encoding succeeds
PlainPlatform == [t \in OutputTypes |-> "ok"]

\* canvas.toDataURL(type, quality) on a canvas of the given size: a canvas without
\* pixels always yields "data:,"
ToDataURL(size, type, platform) ==
    IF size[1] = 0 \/ size[2] = 0
    THEN [throws |-> FALSE, type |-> "", empty |-> TRUE]
    ELSE CASE platform[type] = "ok" -> [throws |-> FALSE, type |-> type, empty |-> FALSE]
           [] platform[type] = "unsupported" -> [throws |-> FALSE, type |-> "image/png", empty |-> FALSE]
           [] platform[type] = "empty" -> [throws |-> FALSE, type |-> "", empty |-> TRUE]
           [] OTHER -> [throws |-> TRUE, type |-> "", empty |-> FALSE]

\* a promise that has not been created
NotCalled == [state |-> "none", type |-> "", empty |-> FALSE, error |-> "", logged |-> 0]

\* resolve(url), after `logged` calls of console.error
Resolved(url, logged) ==
    [state |-> "resolved", type |-> url.type, empty |-> url.empty, error |-> "", logged |-> logged]

\* reject(error), after `logged` calls of console.error
Rejected(error, logged) ==
    [state |-> "rejected", type |-> "", empty |-> FALSE, error |-> error, logged |-> logged]

\* let outputMimeType = 'image/png'; if (mimeType === 'image/jpeg') ... else if 'image/webp'
OutputMimeType(mimeType_) ==
    IF mimeType_ = "image/jpeg" THEN "image/jpeg"
    ELSE IF mimeType_ = "image/webp" THEN "image/webp"
    ELSE "image/png"

\* the try / catch / try / catch that settles the promise of applyClientSideFilter
EncodeGraded(size, mimeType_, platform) ==
    LET first == ToDataURL(size, OutputMimeType(mimeType_), platform)
        png == ToDataURL(size, "image/png", platform)
    IN  IF ~first.throws THEN Resolved(first, 0)
        ELSE IF ~png.throws THEN Resolved(png, 1)
        ELSE Rejected("pngError", 2)

\* the try / catch that settles the promise of createLowResPreview: WebP, then JPEG,
\* then PNG; any throw inside the try goes to the catch, which tries PNG once more
EncodePreview(size, platform) ==
    LET webpUrl == ToDataURL(size, "image/webp", platform)
        jpegUrl == ToDataURL(size, "image/jpeg", platform)
        png == ToDataURL(size, "image/png", platform)
        caught == IF png.throws THEN Rejected("pngError", 1) ELSE Resolved(png, 1)
    IN  IF webpUrl.throws THEN caught
        ELSE IF ~webpUrl.empty THEN Resolved(webpUrl, 0)
        ELSE IF jpegUrl.throws THEN caught
        ELSE IF ~jpegUrl.empty THEN Resolved(jpegUrl, 0)
        ELSE IF png.throws THEN caught
        ELSE Resolved(png, 0)

----------------------------------------------------------------------------
(* Resampling geometry *)

\* mutant: Math.floor in place of Math.round
RoundDivTruncated(a, b) == a \div b

\* Math.round(a / b) for integers a >= 0, b > 0: a quotient of two integers that ends
\* in .5 is a double, so the tie goes up as Math.round defines it
RoundDiv(a, b) == (2 * a + b) \div (2 * b)

\* mutant: each side is capped at maxDimension on its own
PreviewSizeCapped(width, height, maxDimension_) ==
    << IF width > maxDimension_ THEN maxDimension_ ELSE width,
       IF height > maxDimension_ THEN maxDimension_ ELSE height >>

\* mutant: the longer side is always brought to maxDimension
PreviewSizeAlwaysScaled(width, height, maxDimension_) ==
    IF width > height
    THEN <<maxDimension_, RoundDiv(height * maxDimension_, width)>>
    ELSE <<RoundDiv(width * maxDimension_, height), maxDimension_>>

\* the if / else that sizes the preview canvas: <<width, height>>
PreviewSize(width, height, maxDimension_) ==
    IF width > height
    THEN IF width > maxDimension_
         THEN <<maxDimension_, RoundDiv(height * maxDimension_, width)>>
         ELSE <<width, height>>
    ELSE IF height > maxDimension_
         THEN <<RoundDiv(width * maxDimension_, height), maxDimension_>>
         ELSE <<width, height>>

----------------------------------------------------------------------------
(* External override (the text-to-parameters service) *)

\* no override was supplied
NoOverride == [null |-> TRUE]

\* mutant: the override is merged over the style + scene resolution
ResolveMerged(style_, scene_, externalOverride) ==
    IF externalOverride # NoOverride
    THEN [k \in DOMAIN externalOverride \cup DOMAIN TargetFilters(style_, scene_) |->
            IF k \in DOMAIN externalOverride THEN externalOverride[k]
            ELSE TargetFilters(style_, scene_)[k]]
    ELSE TargetFilters(style_, scene_)

\* resolve(styleName, sceneCategory, externalOverride): a supplied override replaces the
\* style + scene resolution wholesale
Resolve(style_, scene_, externalOverride) ==
    IF externalOverride # NoOverride THEN externalOverride
    ELSE TargetFilters(style_, scene_)

----------------------------------------------------------------------------
(* Inputs *)

\* the slider: min={0} max={100} step={1}
MinIntensity == 0
MaxIntensity == 100

\* intensities a caller can pass beyond the slider's range
OutOfRangeIntensities == {-100, 150}

Intensities == (MinIntensity..MaxIntensity) \cup OutOfRangeIntensities

\* const analogStyles, and one name the table does not hold
Styles == DOMAIN filters \cup {"Polaroid 600"}

\* const sceneCategories, and one category the switch does not name
Scenes == {"landscape", "portrait", "flowers", "waterland", "street", "architecture",
           "food", "general", "night"}

\* the `mimeType` arguments: file.type of an imported image
MimeTypes == {"image/png", "image/jpeg", "image/webp", "image/gif"}

\* small image sides, and sides around the preview's default maxDimension
MaxSide == 6
DefaultMaxDimension == 800
Sides == (1..MaxSide) \cup {DefaultMaxDimension - 1, DefaultMaxDimension,
                            DefaultMaxDimension + 1, 2 * DefaultMaxDimension, 2000}
MaxDimensions == (1..MaxSide) \cup {DefaultMaxDimension}

\* overrides shaped like FilterParamsSchema (every key optional), in 1/Unit
Overrides ==
    { ("saturate" :> 15000 @@ "hueRotate" :> 900000),
      ("contrast" :> 13000 @@ "brightness" :> 9000 @@ "grayscale" :> 10000),
      ("sepia" :> 2000 @@ "brightness" :> 10500 @@ "contrast" :> 9000 @@ "saturate" :> 9000
         @@ "hueRotate" :> -100000),
      EmptyObject }

\* the image every parameter combination is graded on
PlainImage == <<MaxSide, 1>>

\* the parameter combinations graded on every image, type and platform
SampleGrades ==
    { <<"Ilford HP5 Plus 400", "portrait", MaxIntensity>>,
      <<"None", "general", MinIntensity>>,
      <<"Kodak Portra 400", "general", MaxIntensity \div 2>> }

\* the grading calls that can be in flight at once
MaxCalls == 2
CallIds == 1..MaxCalls

\* the parameter combinations of the concurrent calls
CallGrades == SampleGrades \cup { <<"CineStill 800T", "waterland", 40>> }

\* a call that has not been made, or whose promise has been consumed
NoCall == [pc |-> "none", style |-> "", scene |-> "", intensity |-> 0, drawn |-> <<>>,
           result |-> NotCalled]

\* the locals of an executor that has not run
NoFrame == [filters |-> EmptyObject, targetFilters |-> EmptyObject, filterString |-> <<>>]

\* the files the user imports
MaxFiles == 2
Files == 1..MaxFiles

\* the values the user picks in the two selects and on the slider
PageStyles == {"Kodak Portra 400", "Ilford HP5 Plus 400"}
PageScenes == {"landscape", "portrait"}
PageIntensities == {MaxIntensity, 40}

\* the handleFileChange calls, and the image loads of one kind, in flight at once
MaxImports == 1
MaxInFlight == 2

\* the picks the user makes in one session: files, styles, scenes, intensities, Re-apply
MaxEvents == 4

\* a data URL produced by applyClientSideFilter, named by the arguments of the call
GradedImage(source, style_, scene_, intensity_) ==
    [source |-> source, style |-> style_, scene |-> scene_, intensity |-> intensity_]

\* null in filteredUrl and filteredPreviewUrl
NoImage == [source |-> 0, style |-> "", scene |-> "", intensity |-> 0]

\* no destructive toast was raised
NoToast == ""

\* no download was triggered
NoDownload == [href |-> NoImage, file |-> 0, style |-> "", scene |-> "", intensity |-> 0]

----------------------------------------------------------------------------
(* The calls *)

Init ==
    /\ pc = "idle"
    /\ style = ""
    /\ scene = ""
    /\ intensity = 0
    /\ mimeType = ""
    /\ override = NoOverride
    /\ targetFilters = EmptyObject
    /\ filterString = <<>>
    /\ ctxFilter = <<>>
    /\ gradeResult = NotCalled
    /\ naturalWidth = 0
    /\ naturalHeight = 0
    /\ maxDimension = 0
    /\ canvasSize = <<0, 0>>
    /\ previewResult = NotCalled
    /\ calls = [c \in CallIds |-> NoCall]
    /\ frames = [c \in CallIds |-> NoFrame]
    /\ selectedFile = 0
    /\ originalDataUrl = 0
    /\ previewUrl = 0
    /\ filteredUrl = NoImage
    /\ filteredPreviewUrl = NoImage
    /\ analogStyle = "Kodak Portra 400"
    /\ sceneCategory = "landscape"
    /\ filterIntensity = MaxIntensity
    /\ isLoading = FALSE
    /\ timeoutId = FALSE
    /\ imports = <<>>
    /\ gradings = <<>>
    /\ previews = <<>>
    /\ latest = [grade |-> NoImage, stored |-> FALSE]
    /\ download = NoDownload
    /\ toast = NoToast
    /\ staleTimeouts = 0
    /\ events = 0

\* mutant: the image is graded at the size of its preview
GradeCanvasSizeOfPreview(img) == PreviewSize(img[1], img[2], DefaultMaxDimension)

\* canvas.width = img.naturalWidth; canvas.height = img.naturalHeight
GradeCanvasSize(img) == img

\* applyClientSideFilter(img, style, scene, intensity, mimeType), on a platform whose
\* getContext('2d') returns a context or null
ApplyClientSideFilter(img, style_, scene_, intensity_, mimeType_, hasContext, platform) ==
    /\ pc = "idle"
    /\ pc' = "graded"
    /\ style' = style_
    /\ scene' = scene_
    /\ intensity' = intensity_
    /\ mimeType' = mimeType_
    /\ naturalWidth' = img[1]
    /\ naturalHeight' = img[2]
    /\ canvasSize' = GradeCanvasSize(img)
    /\ IF ~hasContext
       THEN /\ gradeResult' = Rejected("Could not get canvas context", 0)
            /\ UNCHANGED <<targetFilters, filterString, ctxFilter>>
       ELSE /\ targetFilters' = TargetFilters(style_, scene_)
            /\ filterString' \in FilterStrings(targetFilters', intensity_, Len(DefaultKeys))
            /\ ctxFilter' = CtxFilter(filterString')
            /\ gradeResult' = EncodeGraded(canvasSize', mimeType_, platform)
    /\ UNCHANGED <<override, maxDimension, previewResult>>

\* every style, scene and intensity, on the plain image and platform
GradeParameters ==
    /\ pc = "idle"
    /\ \E style_ \in Styles, scene_ \in Scenes, intensity_ \in Intensities :
        ApplyClientSideFilter(PlainImage, style_, scene_, intensity_, "image/png", TRUE,
                              PlainPlatform)
    /\ UNCHANGED <<callVars, pageVars>>

\* every image, type and platform, on the sample parameters
GradePlatforms ==
    /\ pc = "idle"
    /\ \E width \in Sides, height \in Sides, mimeType_ \in MimeTypes, hasContext \in BOOLEAN,
       platform \in Platforms, sample \in SampleGrades :
        ApplyClientSideFilter(<<width, height>>, sample[1], sample[2], sample[3], mimeType_,
                              hasContext, platform)
    /\ UNCHANGED <<callVars, pageVars>>

\* createLowResPreview(img, maxDimension)
CreateLowResPreview(img, maxDimension_, hasContext, platform) ==
    /\ pc = "idle"
    /\ pc' = "resampled"
    /\ naturalWidth' = img[1]
    /\ naturalHeight' = img[2]
    /\ maxDimension' = maxDimension_
    /\ canvasSize' = PreviewSize(img[1], img[2], maxDimension_)
    /\ previewResult' =
          IF ~hasContext THEN Rejected("Could not get canvas context for preview", 0)
          ELSE EncodePreview(canvasSize', platform)
    /\ UNCHANGED <<style, scene, intensity, mimeType, override, targetFilters, filterString,
                   ctxFilter, gradeResult>>

Resample ==
    /\ pc = "idle"
    /\ \E width \in Sides, height \in Sides, maxDimension_ \in MaxDimensions,
       hasContext \in BOOLEAN, platform \in Platforms :
        CreateLowResPreview(<<width, height>>, maxDimension_, hasContext, platform)
    /\ UNCHANGED <<callVars, pageVars>>

\* the resolver called with an external override (or none)
ResolveOverride ==
    /\ pc = "idle"
    /\ \E style_ \in Styles, scene_ \in Scenes, externalOverride \in Overrides \cup {NoOverride} :
        /\ pc' = "resolved"
        /\ style' = style_
        /\ scene' = scene_
        /\ override' = externalOverride
        /\ targetFilters' = Resolve(style_, scene_, externalOverride)
        /\ UNCHANGED <<intensity, mimeType, filterString, ctxFilter, gradeResult, naturalWidth,
                       naturalHeight, maxDimension, canvasSize, previewResult>>
    /\ UNCHANGED <<callVars, pageVars>>

\* the call is over: its canvas and locals are dropped, the next call starts afresh
CallReturns ==
    /\ pc # "idle"
    /\ pc' = "idle"
    /\ style' = ""
    /\ scene' = ""
    /\ intensity' = 0
    /\ mimeType' = ""
    /\ override' = NoOverride
    /\ targetFilters' = EmptyObject
    /\ filterString' = <<>>
    /\ ctxFilter' = <<>>
    /\ gradeResult' = NotCalled
    /\ naturalWidth' = 0
    /\ naturalHeight' = 0
    /\ maxDimension' = 0
    /\ canvasSize' = <<0, 0>>
    /\ previewResult' = NotCalled
    /\ UNCHANGED <<callVars, pageVars>>

Next ==
    \/ GradePlatforms
    \/ GradeParameters
    \/ Resample
    \/ ResolveOverride
    \/ CallReturns

Spec == Init /\ [][Next]_vars

----------------------------------------------------------------------------
(* Concurrent grading calls.  JavaScript runs the executor of one call to completion   *)
(* before another starts; here the blocks of the calls in flight interleave in any     *)
(* order, which includes that schedule.                                                *)

\* mutant: the locals are shared by every call
FrameShared(c) == 1

\* where the locals of call c live: const and let inside the executor of its own promise
FrameOf(c) == c

\* mutant: targetFilters is the row of the table itself, so the loop writes into the table
FiltersAfterLoopAliased(table, style_, target) ==
    [table EXCEPT ![IF style_ \in DOMAIN table THEN style_ ELSE "None"] = target]

\* the call's `filters` object after the loop over the scene adjustments: the loop
\* assigns to targetFilters, a spread copy of the row, and the table is not written
FiltersAfterLoop(table, style_, target) == table

\* styleFilters, the spread copy and the loop, reading the call's own `filters` object
TargetFiltersOf(table, style_, scene_) ==
    LET styleFilters == IF style_ \in DOMAIN table THEN table[style_] ELSE table["None"]
        sceneAdjustments == SceneAdjustments(scene_)
        touched == DOMAIN sceneAdjustments \cap (AdditiveFilters \cup MultiplicativeFilters)
    IN  [filter \in DOMAIN styleFilters \cup touched |->
            IF filter \in touched
            THEN AdjustedValue(styleFilters, filter, sceneAdjustments[filter])
            ELSE styleFilters[filter]]

\* applyClientSideFilter is called: the executor creates its canvas and its tables
CallEnters(c) ==
    /\ calls[c].pc = "none"
    /\ \E grade \in CallGrades :
          calls' = [calls EXCEPT ![c] = [NoCall EXCEPT !.pc = "entered", !.style = grade[1],
                                                       !.scene = grade[2],
                                                       !.intensity = grade[3]]]
    /\ frames' = [frames EXCEPT ![FrameOf(c)] = [NoFrame EXCEPT !.filters = filters]]
    /\ UNCHANGED <<harnessVars, pageVars>>

\* the style lookup, the scene switch and the loop that combines them
CallResolves(c) ==
    /\ calls[c].pc = "entered"
    /\ LET frame == frames[FrameOf(c)]
           target == TargetFiltersOf(frame.filters, calls[c].style, calls[c].scene)
       IN  frames' = [frames EXCEPT ![FrameOf(c)] =
                        [frame EXCEPT !.targetFilters = target,
                                      !.filters = FiltersAfterLoop(frame.filters,
                                                                   calls[c].style, target)]]
    /\ calls' = [calls EXCEPT ![c].pc = "resolved"]
    /\ UNCHANGED <<harnessVars, pageVars>>

\* the loop over Object.keys(defaults) that builds filterString
CallInterpolates(c) ==
    /\ calls[c].pc = "resolved"
    /\ \E chain \in FilterStrings(frames[FrameOf(c)].targetFilters, calls[c].intensity,
                                  Len(DefaultKeys)) :
          frames' = [frames EXCEPT ![FrameOf(c)].filterString = chain]
    /\ calls' = [calls EXCEPT ![c].pc = "interpolated"]
    /\ UNCHANGED <<harnessVars, pageVars>>

\* ctx.filter, drawImage and toDataURL: the promise settles
CallDraws(c) ==
    /\ calls[c].pc = "interpolated"
    /\ calls' = [calls EXCEPT ![c].pc = "settled",
                              ![c].drawn = CtxFilter(frames[FrameOf(c)].filterString),
                              ![c].result = EncodeGraded(PlainImage, "image/png", PlainPlatform)]
    /\ UNCHANGED <<harnessVars, frames, pageVars>>

\* the caller has taken the result
CallIsConsumed(c) ==
    /\ calls[c].pc = "settled"
    /\ calls' = [calls EXCEPT ![c] = NoCall]
    /\ UNCHANGED <<harnessVars, frames, pageVars>>

Enter == \E c \in CallIds : CallEnters(c)
ResolveTargets == \E c \in CallIds : CallResolves(c)
Interpolate == \E c \in CallIds : CallInterpolates(c)
DrawAndEncode == \E c \in CallIds : CallDraws(c)
Consume == \E c \in CallIds : CallIsConsumed(c)

NextCalls ==
    \/ Enter
    \/ ResolveTargets
    \/ Interpolate
    \/ DrawAndEncode
    \/ Consume

SpecCalls == Init /\ [][NextCalls]_vars

----------------------------------------------------------------------------
(* The page component Home: handlers and the callbacks they leave pending.  The image   *)
(* loads and the file read complete in any order.  A state and the ref that mirrors it  *)
(* are one variable: the handlers assign both, or an effect copies one to the other    *)
(* before the next event.                                                               *)

\* a sequence without its i-th element
Remove(seq, i) == SubSeq(seq, 1, i - 1) \o SubSeq(seq, i + 1, Len(seq))

\* disabled={!originalDataUrl || isLoading} on the selects, the slider and the button
ControlsEnabled == originalDataUrl # 0 /\ ~isLoading

\* handleApplyFilter with a source, up to `img.src = sourceUrlParam`: setIsLoading(true),
\* and the call waits for img.onload; loadingAfter is isLoading once the caller is done
HandleApplyFilter(source, style_, scene_, intensity_, loadingAfter) ==
    LET grade == GradedImage(source, style_, scene_, intensity_)
    IN  /\ Len(gradings) < MaxInFlight
        /\ gradings' = Append([i \in DOMAIN gradings |-> [gradings[i] EXCEPT !.newest = FALSE]],
                              [grade |-> grade, newest |-> TRUE])
        /\ latest' = [grade |-> grade, stored |-> FALSE]
        /\ isLoading' = loadingAfter

\* useMemo(() => debounce(...), [handleApplyFilter]) with handleApplyFilter depending on
\* filteredUrl: a render with another filteredUrl makes a new debounce closure, whose
\* timeoutId is null, and the timer of the closure it replaces stays pending
DebounceAfterRender(url) ==
    IF url # filteredUrl /\ timeoutId
    THEN /\ timeoutId' = FALSE
         /\ staleTimeouts' = staleTimeouts + 1
    ELSE UNCHANGED <<timeoutId, staleTimeouts>>

\* handleFileChange up to `await readFileAsDataURL(file)`; the closure keeps the style,
\* scene and intensity of the render it was created in
HandleFileChange ==
    /\ Len(imports) < MaxImports
    /\ \E file \in Files :
          imports' = Append(imports, [file |-> file, stage |-> "reading",
                                      style |-> analogStyle, scene |-> sceneCategory,
                                      intensity |-> filterIntensity])
    /\ isLoading' = TRUE
    /\ download' = NoDownload
    /\ toast' = NoToast
    /\ UNCHANGED staleTimeouts
    /\ UNCHANGED <<selectedFile, originalDataUrl, previewUrl, filteredUrl, filteredPreviewUrl,
                   analogStyle, sceneCategory, filterIntensity, timeoutId, gradings, previews,
                   latest>>
    /\ events < MaxEvents
    /\ events' = events + 1
    /\ UNCHANGED <<harnessVars, callVars>>

\* readFileAsDataURL resolved: setOriginalDataUrl, and the image starts to load
FileRead ==
    /\ \E i \in DOMAIN imports :
          /\ imports[i].stage = "reading"
          /\ originalDataUrl' = imports[i].file
          /\ imports' = [imports EXCEPT ![i].stage = "decoding"]
    /\ download' = NoDownload
    /\ toast' = NoToast
    /\ UNCHANGED staleTimeouts
    /\ UNCHANGED <<selectedFile, previewUrl, filteredUrl, filteredPreviewUrl, analogStyle,
                   sceneCategory, filterIntensity, isLoading, timeoutId, gradings, previews,
                   latest>>
    /\ UNCHANGED events
    /\ UNCHANGED <<harnessVars, callVars>>

\* readFileAsDataURL rejected: the catch (readError) block
FileReadFails ==
    /\ \E i \in DOMAIN imports :
          /\ imports[i].stage = "reading"
          /\ imports' = Remove(imports, i)
    /\ isLoading' = FALSE
    /\ download' = NoDownload
    /\ toast' = "File Read Error"
    /\ UNCHANGED staleTimeouts
    /\ UNCHANGED <<selectedFile, originalDataUrl, previewUrl, filteredUrl, filteredPreviewUrl,
                   analogStyle, sceneCategory, filterIntensity, timeoutId, gradings, previews,
                   latest>>
    /\ UNCHANGED events
    /\ UNCHANGED <<harnessVars, callVars>>

\* img.onload of handleFileChange: the preview (low-res, or the original when the
\* resampler rejects), the reset of the graded images, the automatic handleApplyFilter
\* with the closure's style, scene and intensity, and the finally block
FileImageLoaded ==
    /\ \E i \in DOMAIN imports :
          /\ imports[i].stage = "decoding"
          /\ previewUrl' = imports[i].file
          /\ selectedFile' = imports[i].file
          /\ HandleApplyFilter(imports[i].file, imports[i].style, imports[i].scene,
                               imports[i].intensity, FALSE)
          /\ imports' = Remove(imports, i)
    /\ filteredUrl' = NoImage
    /\ filteredPreviewUrl' = NoImage
    /\ download' = NoDownload
    /\ toast' = NoToast
    /\ DebounceAfterRender(NoImage)
    /\ UNCHANGED <<originalDataUrl, analogStyle, sceneCategory, filterIntensity,
                   previews>>
    /\ UNCHANGED events
    /\ UNCHANGED <<harnessVars, callVars>>

\* img.onerror of handleFileChange: every image state is reset
FileImageError ==
    /\ \E i \in DOMAIN imports :
          /\ imports[i].stage = "decoding"
          /\ imports' = Remove(imports, i)
    /\ originalDataUrl' = 0
    /\ previewUrl' = 0
    /\ selectedFile' = 0
    /\ filteredUrl' = NoImage
    /\ filteredPreviewUrl' = NoImage
    /\ isLoading' = FALSE
    /\ download' = NoDownload
    /\ toast' = "Image Load Error"
    /\ DebounceAfterRender(NoImage)
    /\ UNCHANGED <<analogStyle, sceneCategory, filterIntensity, gradings, previews,
                   latest>>
    /\ UNCHANGED events
    /\ UNCHANGED <<harnessVars, callVars>>

\* onValueChange of the style select
SelectStyle ==
    /\ ControlsEnabled
    /\ \E value \in PageStyles \ {analogStyle} :
          /\ analogStyle' = value
          /\ HandleApplyFilter(originalDataUrl, value, sceneCategory, filterIntensity, TRUE)
    /\ download' = NoDownload
    /\ toast' = NoToast
    /\ UNCHANGED staleTimeouts
    /\ UNCHANGED <<selectedFile, originalDataUrl, previewUrl, filteredUrl, filteredPreviewUrl,
                   sceneCategory, filterIntensity, timeoutId, imports, previews>>
    /\ events < MaxEvents
    /\ events' = events + 1
    /\ UNCHANGED <<harnessVars, callVars>>

\* onValueChange of the scene select
SelectScene ==
    /\ ControlsEnabled
    /\ \E value \in PageScenes \ {sceneCategory} :
          /\ sceneCategory' = value
          /\ HandleApplyFilter(originalDataUrl, analogStyle, value, filterIntensity, TRUE)
    /\ download' = NoDownload
    /\ toast' = NoToast
    /\ UNCHANGED staleTimeouts
    /\ UNCHANGED <<selectedFile, originalDataUrl, previewUrl, filteredUrl, filteredPreviewUrl,
                   analogStyle, filterIntensity, timeoutId, imports, previews>>
    /\ events < MaxEvents
    /\ events' = events + 1
    /\ UNCHANGED <<harnessVars, callVars>>

\* handleIntensityChange: the state and the ref at once, the grading after the debounce
HandleIntensityChange ==
    /\ ControlsEnabled
    /\ \E value \in PageIntensities \ {filterIntensity} : filterIntensity' = value
    /\ timeoutId' = TRUE
    /\ download' = NoDownload
    /\ toast' = NoToast
    /\ UNCHANGED staleTimeouts
    /\ UNCHANGED <<selectedFile, originalDataUrl, previewUrl, filteredUrl, filteredPreviewUrl,
                   analogStyle, sceneCategory, isLoading, imports, gradings, previews, latest>>
    /\ events < MaxEvents
    /\ events' = events + 1
    /\ UNCHANGED <<harnessVars, callVars>>

\* the timer of debounce fires: handleApplyFilter with the current refs, which returns
\* at once when there is no source
DebounceFires ==
    /\ timeoutId
    /\ timeoutId' = FALSE
    /\ IF originalDataUrl = 0
       THEN UNCHANGED <<gradings, latest, isLoading>>
       ELSE HandleApplyFilter(originalDataUrl, analogStyle, sceneCategory, filterIntensity, TRUE)
    /\ download' = NoDownload
    /\ toast' = NoToast
    /\ UNCHANGED staleTimeouts
    /\ UNCHANGED <<selectedFile, originalDataUrl, previewUrl, filteredUrl, filteredPreviewUrl,
                   analogStyle, sceneCategory, filterIntensity, imports, previews>>
    /\ UNCHANGED events
    /\ UNCHANGED <<harnessVars, callVars>>

\* the timer of a replaced debounce closure fires: the same call, with the current refs
StaleTimeoutFires ==
    /\ staleTimeouts > 0
    /\ staleTimeouts' = staleTimeouts - 1
    /\ IF originalDataUrl = 0
       THEN UNCHANGED <<gradings, latest, isLoading>>
       ELSE HandleApplyFilter(originalDataUrl, analogStyle, sceneCategory, filterIntensity, TRUE)
    /\ download' = NoDownload
    /\ toast' = NoToast
    /\ UNCHANGED <<selectedFile, originalDataUrl, previewUrl, filteredUrl, filteredPreviewUrl,
                   analogStyle, sceneCategory, filterIntensity, timeoutId, imports, previews>>
    /\ UNCHANGED events
    /\ UNCHANGED <<harnessVars, callVars>>

\* onClick of the Re-apply button: handleApplyFilter() with the refs as defaults
Reapply ==
    /\ ControlsEnabled
    /\ HandleApplyFilter(originalDataUrl, analogStyle, sceneCategory, filterIntensity, TRUE)
    /\ download' = NoDownload
    /\ toast' = NoToast
    /\ UNCHANGED staleTimeouts
    /\ UNCHANGED <<selectedFile, originalDataUrl, previewUrl, filteredUrl, filteredPreviewUrl,
                   analogStyle, sceneCategory, filterIntensity, timeoutId, imports, previews>>
    /\ events < MaxEvents
    /\ events' = events + 1
    /\ UNCHANGED <<harnessVars, callVars>>

\* mutant: a call that fails takes the stored graded image away
FilteredUrlAfterReset(resolves, grade) == IF resolves THEN grade ELSE NoImage

\* setFilteredUrl(filteredDataUri) follows the await inside the try block: it runs only
\* when applyClientSideFilter has resolved
FilteredUrlAfter(resolves, grade) == IF resolves THEN grade ELSE filteredUrl

\* img.onload of handleApplyFilter: applyClientSideFilter resolves and its result is
\* stored and handed to the preview image, or it rejects; then the finally block
GradeImageLoaded ==
    /\ \E i \in DOMAIN gradings, resolves \in BOOLEAN :
          /\ gradings' = Remove(gradings, i)
          /\ IF resolves
             THEN /\ Len(previews) < MaxInFlight
                  /\ previews' = Append(previews, gradings[i].grade)
                  /\ latest' = IF gradings[i].newest THEN [latest EXCEPT !.stored = TRUE]
                                ELSE latest
             ELSE UNCHANGED <<previews, latest>>
          /\ filteredUrl' = FilteredUrlAfter(resolves, gradings[i].grade)
          /\ toast' = IF resolves THEN NoToast ELSE "Filter Error"
    /\ isLoading' = FALSE
    /\ DebounceAfterRender(filteredUrl')
    /\ download' = NoDownload
    /\ UNCHANGED <<selectedFile, originalDataUrl, previewUrl, filteredPreviewUrl, analogStyle,
                   sceneCategory, filterIntensity, imports>>
    /\ UNCHANGED events
    /\ UNCHANGED <<harnessVars, callVars>>

\* mutant: img.onerror of handleApplyFilter without setIsLoading(false)
GradeImageErrorKeepsLoading ==
    /\ \E i \in DOMAIN gradings : gradings' = Remove(gradings, i)
    /\ toast' = "Image Load Error"
    /\ download' = NoDownload
    /\ UNCHANGED <<selectedFile, originalDataUrl, previewUrl, filteredUrl, filteredPreviewUrl,
                   analogStyle, sceneCategory, filterIntensity, isLoading, timeoutId, imports,
                   previews, latest, staleTimeouts, events>>
    /\ UNCHANGED <<harnessVars, callVars>>

\* img.onerror of handleApplyFilter
GradeImageError ==
    /\ \E i \in DOMAIN gradings : gradings' = Remove(gradings, i)
    /\ isLoading' = FALSE
    /\ download' = NoDownload
    /\ toast' = "Image Load Error"
    /\ UNCHANGED staleTimeouts
    /\ UNCHANGED <<selectedFile, originalDataUrl, previewUrl, filteredUrl, filteredPreviewUrl,
                   analogStyle, sceneCategory, filterIntensity, timeoutId, imports, previews,
                   latest>>
    /\ UNCHANGED events
    /\ UNCHANGED <<harnessVars, callVars>>

\* filteredImgForPreview.onload or .onerror: the low-res preview of the graded image, or
\* the graded image itself, becomes the filtered preview
FilteredPreviewLoaded ==
    /\ \E i \in DOMAIN previews :
          /\ filteredPreviewUrl' = previews[i]
          /\ previews' = Remove(previews, i)
    /\ download' = NoDownload
    /\ toast' = NoToast
    /\ UNCHANGED staleTimeouts
    /\ UNCHANGED <<selectedFile, originalDataUrl, previewUrl, filteredUrl, analogStyle,
                   sceneCategory, filterIntensity, isLoading, timeoutId, imports, gradings,
                   latest>>
    /\ UNCHANGED events
    /\ UNCHANGED <<harnessVars, callVars>>

\* handleExport, behind the button that is rendered while filteredUrl is set: the link
\* takes filteredUrl and a name built from the refs
HandleExport ==
    /\ filteredUrl # NoImage
    /\ download' = IF selectedFile = 0 THEN NoDownload
                   ELSE [href |-> filteredUrl, file |-> selectedFile, style |-> analogStyle,
                         scene |-> sceneCategory, intensity |-> filterIntensity]
    /\ UNCHANGED <<selectedFile, originalDataUrl, previewUrl, filteredUrl, filteredPreviewUrl,
                   analogStyle, sceneCategory, filterIntensity, isLoading, timeoutId, imports,
                   gradings, previews, latest>>
    /\ toast' = NoToast
    /\ UNCHANGED staleTimeouts
    /\ UNCHANGED events
    /\ UNCHANGED <<harnessVars, callVars>>

NextPage ==
    \/ HandleFileChange
    \/ FileRead
    \/ FileReadFails
    \/ FileImageLoaded
    \/ FileImageError
    \/ SelectStyle
    \/ SelectScene
    \/ HandleIntensityChange
    \/ DebounceFires
    \/ StaleTimeoutFires
    \/ Reapply
    \/ GradeImageLoaded
    \/ GradeImageError
    \/ FilteredPreviewLoaded
    \/ HandleExport

SpecPage == Init /\ [][NextPage]_vars

\* a FileReader ends in its load or its error event
FileReaderSettles == WF_vars(FileRead \/ FileReadFails)

\* an Image whose src was set ends in its load or its error event
ImageLoadSettles ==
    /\ WF_vars(FileImageLoaded \/ FileImageError)
    /\ WF_vars(GradeImageLoaded \/ GradeImageError)

\* the page with every started read and every started image load running to its callback
SpecPageLive == SpecPage /\ FileReaderSettles /\ ImageLoadSettles

----------------------------------------------------------------------------
(* Vocabulary of the properties *)

\* applyClientSideFilter got a context and assigned ctx.filter
Filtered == pc = "graded" /\ ctxFilter # <<>>

\* applyClientSideFilter resolved at once with an image of the requested type
Graded ==
    /\ Filtered
    /\ gradeResult.state = "resolved"
    /\ gradeResult.type = OutputMimeType(mimeType)
    /\ gradeResult.logged = 0

\* the operation is in the emitted chain
IsEmitted(filter) == \E i \in DOMAIN filterString : filterString[i].filter = filter

\* the neutral value of an operation as the chain would print it
NeutralPrinted(filter) ==
    IF filter = "hue-rotate" THEN 0 ELSE (defaults[filter] * Milli) \div Unit

\* the value the chain applies for an operation: the emitted one, or neutral when the
\* operation is left out
AppliedValue(filter) ==
    IF IsEmitted(filter)
    THEN (CHOOSE e \in {filterString[i] : i \in DOMAIN filterString} : e.filter = filter).value
    ELSE NeutralPrinted(filter)

\* one printed step of an operation, in 1/Fine: a degree for hue-rotate, 0.001 otherwise
PrintedStep(filter) == IF filter = "hue-rotate" THEN Fine ELSE Fine \div Milli

AllFilters == {DefaultKeys[i] : i \in DOMAIN DefaultKeys}

----------------------------------------------------------------------------
(* Properties *)

\* C1  Neutral law: at intensity 0 every entry of the chain handed to the canvas is the
\* keyword none or carries exactly the neutral value of its operation.
NeutralLaw ==
    (Filtered /\ intensity = 0) =>
        \A i \in DOMAIN ctxFilter :
            \/ ctxFilter[i] = NoneKeyword
            \/ ctxFilter[i].value = NeutralPrinted(ctxFilter[i].filter)

\* a black-and-white style graded at intensity 0: the chain is not empty
NeutralLawWitness ==
    Filtered /\ intensity = 0 /\ style = "High Contrast B&W" /\ filterString # <<>>

\* C2  Full-intensity law: at intensity 100 every operation is applied at its target
\* magnitude, to the printed precision (half a printed step); Ilford HP5 Plus 400 with
\* scene general emits exactly contrast 1.2, brightness 1.1 and grayscale 1.
FullIntensityLaw ==
    (Filtered /\ intensity = MaxIntensity) =>
        /\ \A filter \in AllFilters :
              2 * Abs(AppliedValue(filter) * PrintedStep(filter)
                      - TargetValue(targetFilters, filter) * Percent) <= PrintedStep(filter)
        /\ (style = "Ilford HP5 Plus 400" /\ scene = "general") =>
              filterString = << [filter |-> "contrast", value |-> 1200],
                                [filter |-> "brightness", value |-> 1100],
                                [filter |-> "grayscale", value |-> 1000] >>

FullIntensityLawWitness ==
    /\ Filtered
    /\ intensity = MaxIntensity
    /\ style = "Ilford HP5 Plus 400"
    /\ scene = "general"
    /\ IsEmitted("grayscale")
    /\ ~IsEmitted("sepia")
    /\ ~IsEmitted("hue-rotate")

\* C3  A supplied override is the resolved grade, whatever the style and the scene.
OverrideWins ==
    (pc = "resolved" /\ override # NoOverride) => targetFilters = override

OverrideWinsWitness ==
    /\ pc = "resolved"
    /\ style = "Kodak Portra 400"
    /\ override = ("saturate" :> 15000 @@ "hueRotate" :> 900000)
    /\ DOMAIN targetFilters = {"saturate", "hueRotate"}

\* the intensity nearest to the one given, inside the slider's range
NearestBound(intensity_) ==
    IF intensity_ < MinIntensity THEN MinIntensity
    ELSE IF intensity_ > MaxIntensity THEN MaxIntensity
    ELSE intensity_

\* C4  An intensity outside [0,100] is rejected as an invalid parameter, or the chain is
\* the one of the nearest bound.
OutOfRangeIntensityHandled ==
    (Filtered /\ intensity \notin MinIntensity..MaxIntensity) =>
        \/ gradeResult.state = "rejected" /\ gradeResult.error = "InvalidParameter"
        \/ filterString \in FilterStrings(targetFilters, NearestBound(intensity), Len(DefaultKeys))

\* the style's own value of an operation, neutral when the preset does not define it
StyleValue(style_, filter) ==
    IF style_ \in DOMAIN filters /\ filter \in DOMAIN filters[style_]
    THEN filters[style_][filter]
    ELSE defaults[filter]

\* C5  Scene layering: the target of an operation the scene names is style * scene for
\* contrast, saturate, brightness and grayscale and style + scene for sepia and
\* hue-rotate; an operation the scene does not name keeps the style's value.
SceneLayering ==
    Filtered =>
        \A filter \in AllFilters :
            LET adjustments == SceneAdjustments(scene)
                base == StyleValue(style, filter)
                target == TargetValue(targetFilters, filter)
            IN  IF filter \notin DOMAIN adjustments THEN target = base
                ELSE IF filter \in {"sepia", "hue-rotate"}
                     THEN target = base + adjustments[filter]
                     ELSE target * Unit = base * adjustments[filter]

\* a style and a scene that meet on a multiplied and on an added operation
SceneLayeringWitness ==
    /\ Filtered
    /\ style = "CineStill 800T"
    /\ scene = "waterland"
    /\ targetFilters["hue-rotate"] = -150000
    /\ targetFilters["saturate"] = 11550

\* C6  An operation the style does not define counts as neutral: a scene factor
\* multiplies 1, a scene offset adds to 0, and an operation neither defines is never
\* emitted; None with portrait at 50 emits contrast 0.975 and sepia 0.025.
AbsentIsNeutral ==
    Filtered =>
        /\ \A filter \in AllFilters \ DOMAIN StyleFilters(style) :
              LET adjustments == SceneAdjustments(scene)
                  target == TargetValue(targetFilters, filter)
              IN  IF filter \notin DOMAIN adjustments THEN ~IsEmitted(filter)
                  ELSE IF filter \in {"sepia", "hue-rotate"}
                       THEN target = 0 + adjustments[filter]
                       ELSE target = (Unit * adjustments[filter]) \div Unit
        /\ (style = "None" /\ scene = "portrait" /\ intensity = 50) =>
              filterString = << [filter |-> "contrast", value |-> 975],
                                [filter |-> "sepia", value |-> 25] >>

AbsentIsNeutralWitness ==
    /\ Filtered
    /\ style = "None"
    /\ scene = "portrait"
    /\ intensity = 50
    /\ IsEmitted("contrast")
    /\ IsEmitted("sepia")

\* C7  The resolver never fails: an unknown style resolves like None, an unknown scene
\* like general, and with both unknown nothing is emitted at any intensity.
UnknownNamesFallBack ==
    Filtered =>
        /\ style \notin DOMAIN filters => targetFilters = TargetFilters("None", scene)
        /\ scene \notin {"portrait", "landscape", "flowers", "street", "waterland",
                         "architecture", "food", "general"}
              => targetFilters = TargetFilters(style, "general")
        /\ (style = "Polaroid 600" /\ scene = "night") =>
              /\ targetFilters = EmptyObject
              /\ ctxFilter = <<NoneKeyword>>

UnknownNamesFallBackWitness ==
    /\ Filtered
    /\ style = "Polaroid 600"
    /\ scene = "night"
    /\ intensity = MaxIntensity
    /\ gradeResult.state = "resolved"

\* C8  Inclusion rule: an emitted operation differs from neutral by 0.001 or more (a
\* difference of exactly 0.001 is left to the double's rounding), except grayscale with a
\* target of exactly 1 at a nonzero intensity; at intensity 0 nothing is emitted.
InclusionRule ==
    Graded =>
        /\ \A filter \in AllFilters :
              IsEmitted(filter) =>
                  \/ Abs(InterpolatedValue(targetFilters, filter, intensity)
                         - defaults[filter] * Percent) >= Epsilon
                  \/ /\ filter = "grayscale"
                     /\ TargetValue(targetFilters, filter) = Unit
                     /\ intensity # 0
        /\ intensity = 0 => filterString = <<>>

\* C9  The emitted operations keep one fixed relative order, and grayscale never comes
\* after sepia.
FixedOrderGrayscaleBeforeSepia ==
    Graded =>
        \A i, j \in DOMAIN filterString :
            i < j =>
                /\ \E m, n \in DOMAIN DefaultKeys :
                      /\ m < n
                      /\ DefaultKeys[m] = filterString[i].filter
                      /\ DefaultKeys[n] = filterString[j].filter
                /\ ~(filterString[i].filter = "sepia" /\ filterString[j].filter = "grayscale")

\* C10  Resampling never upscales: the canvas is no wider and no higher than the source,
\* and a source within maxDimension keeps its size.
NeverUpscales ==
    pc = "resampled" =>
        /\ canvasSize[1] <= naturalWidth
        /\ canvasSize[2] <= naturalHeight
        /\ (naturalWidth <= maxDimension /\ naturalHeight <= maxDimension)
              => canvasSize = <<naturalWidth, naturalHeight>>

\* a source within maxDimension, drawn at its own size
NeverUpscalesWitness ==
    /\ pc = "resampled"
    /\ naturalWidth < maxDimension
    /\ naturalHeight < naturalWidth
    /\ canvasSize = <<naturalWidth, naturalHeight>>
    /\ previewResult.state = "resolved"

\* the longer side of a size <<width, height>>
Longer(size) == IF size[1] > size[2] THEN size[1] ELSE size[2]

\* the source image of the call
NaturalSize == <<naturalWidth, naturalHeight>>

\* the source side that is not shorter than the other has index LongIndex; the other
\* side has index 3 - LongIndex
LongIndex == IF naturalWidth > naturalHeight THEN 1 ELSE 2

\* C11  When the longer source side exceeds maxDimension (a square included), the
\* canvas has maxDimension on that side and, on the other side, an integer nearest to
\* source side * maxDimension / longer source side; no canvas side exceeds maxDimension.
ScaledToMaxDimension ==
    (pc = "resampled" /\ Longer(NaturalSize) > maxDimension) =>
        /\ canvasSize[LongIndex] = maxDimension
        /\ Longer(canvasSize) = maxDimension
        /\ 2 * Abs(canvasSize[3 - LongIndex] * Longer(NaturalSize)
                   - NaturalSize[3 - LongIndex] * maxDimension) <= Longer(NaturalSize)
        /\ canvasSize[1] <= maxDimension
        /\ canvasSize[2] <= maxDimension

\* a square source larger than maxDimension becomes a square of maxDimension
ScaledToMaxDimensionWitness ==
    /\ pc = "resampled"
    /\ naturalWidth = naturalHeight
    /\ naturalWidth = 2 * DefaultMaxDimension
    /\ maxDimension = DefaultMaxDimension
    /\ canvasSize = <<DefaultMaxDimension, DefaultMaxDimension>>

\* C12  Aspect ratio: the shorter canvas side is within one pixel of the side that
\* would give the canvas exactly the source's width / height ratio.
AspectRatioPreserved ==
    pc = "resampled" =>
        Abs(canvasSize[3 - LongIndex] * Longer(NaturalSize)
            - NaturalSize[3 - LongIndex] * canvasSize[LongIndex]) <= Longer(NaturalSize)

\* a 2000 x 799 source at 800: the exact height is 319.6, the canvas has 320
AspectRatioPreservedWitness ==
    /\ pc = "resampled"
    /\ naturalWidth = 2000
    /\ naturalHeight = DefaultMaxDimension - 1
    /\ maxDimension = DefaultMaxDimension
    /\ canvasSize = <<DefaultMaxDimension, 320>>

\* C13  After resolution the grayscale target lies in [0, 1] and the contrast, saturate
\* and brightness targets are not below 0, for every style and scene.
TargetsWithinClamps ==
    Filtered =>
        /\ TargetValue(targetFilters, "grayscale") \in 0..Unit
        /\ \A filter \in {"contrast", "saturate", "brightness"} :
              TargetValue(targetFilters, filter) >= 0

\* a black-and-white style under a scene that scales contrast up and saturation down
TargetsWithinClampsWitness ==
    /\ Filtered
    /\ style = "High Contrast B&W"
    /\ scene = "architecture"
    /\ targetFilters["grayscale"] = Unit
    /\ targetFilters["contrast"] = 17250
    /\ targetFilters["saturate"] = 9000

\* C15  A grading call ends in exactly one outcome, a complete encoded image or an
\* error: it resolves with an image of the requested type, or, when that encoding
\* fails, with a PNG; it rejects only without a drawing context or when PNG fails too.
GradingEndsInImageOrError ==
    pc = "graded" =>
        \/ /\ gradeResult.state = "resolved"
           /\ ~gradeResult.empty
           /\ gradeResult.type \in {OutputMimeType(mimeType), "image/png"}
           /\ gradeResult.logged = 1 => gradeResult.type = "image/png"
        \/ /\ gradeResult.state = "rejected"
           /\ \/ gradeResult.error = "pngError" /\ gradeResult.logged = 2
              \/ gradeResult.error = "Could not get canvas context"

\* C16  The resampler resolves with the first of WebP, JPEG, PNG that is not
\* degenerate and never with a degenerate data URL; it rejects only without a drawing
\* context or when the PNG encoding fails.
PreviewNeverDegenerate ==
    pc = "resampled" =>
        \/ /\ previewResult.state = "resolved"
           /\ ~previewResult.empty
           /\ previewResult.type \in OutputTypes
        \/ /\ previewResult.state = "rejected"
           /\ previewResult.error \in {"pngError", "Could not get canvas context for preview"}

\* C17  hue-rotate is emitted in whole degrees, every other operation in whole
\* thousandths, and the emitted number is a nearest one to the interpolated value.
EmittedPrecision ==
    Filtered =>
        \A i \in DOMAIN filterString :
            2 * Abs(filterString[i].value * PrintedStep(filterString[i].filter)
                    - InterpolatedValue(targetFilters, filterString[i].filter, intensity))
                <= PrintedStep(filterString[i].filter)

\* CineStill 800T at 33: hue-rotate -3.3 is emitted as -3deg, sepia 0.033 as 0.033
EmittedPrecisionWitness ==
    /\ Filtered
    /\ style = "CineStill 800T"
    /\ scene = "general"
    /\ intensity = 33
    /\ IsEmitted("hue-rotate")
    /\ AppliedValue("hue-rotate") = -3
    /\ AppliedValue("sepia") = 33

\* call c has run the resolution of its style and scene
HasResolved(c) == calls[c].pc \in {"resolved", "interpolated", "settled"}

\* C14  Resolution is deterministic: whatever calls came before or are in flight, the
\* targets of a call are the one value fixed by its style and scene, and the call leaves
\* its preset table as the literal wrote it.
DeterministicResolution ==
    \A c \in CallIds :
        HasResolved(c) =>
            /\ frames[FrameOf(c)].targetFilters = TargetFilters(calls[c].style, calls[c].scene)
            /\ frames[FrameOf(c)].filters = filters
            /\ \A d \in CallIds :
                  (HasResolved(d) /\ calls[d].style = calls[c].style
                                 /\ calls[d].scene = calls[c].scene)
                      => frames[FrameOf(d)].targetFilters = frames[FrameOf(c)].targetFilters

\* two calls with the same style and scene have resolved, one of them settled
DeterministicResolutionWitness ==
    /\ calls[1].pc = "settled"
    /\ calls[2].pc = "resolved"
    /\ calls[1].style = "CineStill 800T"
    /\ calls[2].style = "CineStill 800T"
    /\ calls[1].scene = "waterland"
    /\ calls[2].scene = "waterland"
    /\ frames[2].targetFilters["hue-rotate"] = -150000

\* C18  Calls in flight share no state: whatever the interleaving, a settled call has
\* drawn a chain of its own style, scene and intensity and settled as it does alone.
CallsAreIsolated ==
    \A c \in CallIds :
        calls[c].pc = "settled" =>
            /\ \E chain \in FilterStrings(TargetFilters(calls[c].style, calls[c].scene),
                                          calls[c].intensity, Len(DefaultKeys)) :
                  calls[c].drawn = CtxFilter(chain)
            /\ calls[c].result = EncodeGraded(PlainImage, "image/png", PlainPlatform)

\* call 1 settled while call 2, with another style, scene and intensity, was between
\* its resolution and its interpolation
CallsAreIsolatedWitness ==
    /\ calls[1].pc = "settled"
    /\ calls[2].pc = "resolved"
    /\ calls[1].style = "Ilford HP5 Plus 400"
    /\ calls[2].style = "CineStill 800T"
    /\ calls[1].drawn = << [filter |-> "contrast", value |-> 1140],
                           [filter |-> "brightness", value |-> 1100],
                           [filter |-> "sepia", value |-> 50],
                           [filter |-> "grayscale", value |-> 1000] >>

\* C19  Latest call wins: once the most recently initiated grading call has stored its
\* result, the stored graded image stays that result (until it is reset), whatever
\* older call completes afterwards; and when nothing is pending any more, it is the
\* image of the loaded file graded with the selected style, scene and intensity.
LatestCallWins ==
    (latest.stored /\ filteredUrl # NoImage) =>
        /\ filteredUrl = latest.grade
        /\ (imports = <<>> /\ gradings = <<>> /\ ~timeoutId) =>
              filteredUrl = GradedImage(originalDataUrl, analogStyle, sceneCategory,
                                        filterIntensity)

\* C20  An export pairs the graded image with a name that carries the style, scene and
\* intensity the image was graded with.
ExportNameMatchesImage ==
    download # NoDownload =>
        /\ download.style = download.href.style
        /\ download.scene = download.href.scene
        /\ download.intensity = download.href.intensity

\* the smaller and the larger of two numbers
Min(a, b) == IF a < b THEN a ELSE b
Max(a, b) == IF a < b THEN b ELSE a

\* C21  For an intensity p in [0, 100] the interpolated value of every operation is
\* neutral + (target - neutral) * p / 100; it lies between neutral and target, and no
\* smaller intensity takes it farther from neutral.
LinearInterpolation ==
    (Filtered /\ intensity \in MinIntensity..MaxIntensity) =>
        \A filter \in AllFilters :
            LET neutral == defaults[filter]
                target == TargetValue(targetFilters, filter)
                value == InterpolatedValue(targetFilters, filter, intensity)
            IN  /\ value - neutral * Percent = (target - neutral) * intensity
                /\ value >= Min(neutral, target) * Percent
                /\ value <= Max(neutral, target) * Percent
                /\ \A lower \in MinIntensity..intensity :
                      Abs(InterpolatedValue(targetFilters, filter, lower) - neutral * Percent)
                          <= Abs(value - neutral * Percent)

\* Fujifilm Velvia 50 at 25: saturate 1 + 0.4 / 4 and contrast 1 + 0.2 / 4
LinearInterpolationWitness ==
    /\ Filtered
    /\ style = "Fujifilm Velvia 50"
    /\ scene = "general"
    /\ intensity = 25
    /\ AppliedValue("saturate") = 1100
    /\ AppliedValue("contrast") = 1050

\* C22  The graded image has the source's width and height whatever the style, scene
\* and intensity, so its preview has the size of the preview of the source.
GradedAtNativeSize ==
    (pc = "graded" /\ gradeResult.state = "resolved") =>
        /\ canvasSize = <<naturalWidth, naturalHeight>>
        /\ PreviewSize(canvasSize[1], canvasSize[2], DefaultMaxDimension)
              = PreviewSize(naturalWidth, naturalHeight, DefaultMaxDimension)

\* a 2000 x 1600 source graded at intensity 0 and resolved
GradedAtNativeSizeWitness ==
    /\ pc = "graded"
    /\ gradeResult.state = "resolved"
    /\ ~gradeResult.empty
    /\ intensity = MinIntensity
    /\ naturalWidth = 2000
    /\ naturalHeight = 2 * DefaultMaxDimension
    /\ canvasSize = <<2000, 2 * DefaultMaxDimension>>

\* C23  For every style and scene the targets are inside the ranges of the data model:
\* sepia and grayscale in [0, 1], hue-rotate in [-360, 360] degrees, contrast, saturate
\* and brightness in [0, 3].
TargetsWithinRanges ==
    Filtered =>
        /\ \A filter \in {"sepia", "grayscale"} :
              TargetValue(targetFilters, filter) \in 0..Unit
        /\ TargetValue(targetFilters, "hue-rotate") \in (-360 * Unit)..(360 * Unit)
        /\ \A filter \in {"contrast", "saturate", "brightness"} :
              TargetValue(targetFilters, filter) \in 0..(3 * Unit)

\* the largest hue of the catalog under the one scene that shifts the hue
TargetsWithinRangesWitness ==
    /\ Filtered
    /\ style = "Infrared Simulation"
    /\ scene = "waterland"
    /\ targetFilters["hue-rotate"] = 1750000
    /\ targetFilters["saturate"] = 12600

\* C25  A source of at least 1 x 1 is resampled to a canvas of at least 1 x 1.
PreviewHasPixels ==
    (pc = "resampled" /\ naturalWidth >= 1 /\ naturalHeight >= 1 /\ maxDimension >= 1) =>
        /\ canvasSize[1] >= 1
        /\ canvasSize[2] >= 1

\* C30  No entry of the chain is a no-op: every emitted value differs from the neutral
\* value of its operation as printed.
NoNeutralEntries ==
    Graded =>
        \A i \in DOMAIN filterString :
            filterString[i].value # NeutralPrinted(filterString[i].filter)

\* a grading call ends and hands no image to the preview generation
GradingCallFails == Len(gradings') < Len(gradings) /\ previews' = previews

\* C24  A grading call that fails (its image does not load, or the grading rejects)
\* raises a destructive toast and leaves the stored graded image and the stored graded
\* preview as they were.
FailedCallStoresNothing ==
    [][GradingCallFails =>
          /\ toast' \in {"Filter Error", "Image Load Error"}
          /\ UNCHANGED <<filteredUrl, filteredPreviewUrl>>]_vars

\* a rejected grading after an earlier call has stored its image and its preview
FailedCallStoresNothingWitness ==
    /\ toast = "Filter Error"
    /\ filteredUrl # NoImage
    /\ filteredPreviewUrl = filteredUrl
    /\ gradings = <<>>

\* C26  When no grading call and no preview generation is in flight, a stored graded
\* preview is the preview of the stored graded image.
PreviewMatchesGradedImage ==
    (gradings = <<>> /\ previews = <<>> /\ filteredPreviewUrl # NoImage) =>
        filteredPreviewUrl = filteredUrl

\* C27  While a grading call is in flight isLoading is true, so the selects, the slider
\* and the Re-apply button are disabled.
LoadingWhileGrading ==
    gradings # <<>> => (isLoading /\ ~ControlsEnabled)

\* the timers that are pending, over all debounce closures
PendingTimeouts == staleTimeouts + (IF timeoutId THEN 1 ELSE 0)

\* C28  A burst of slider changes, each less than 500 ms after the one before, starts one
\* grading call: at no time are two timers pending, since each pending timer was set
\* less than 500 ms ago and each starts a call when it fires.
OneCallPerBurst == PendingTimeouts <= 1

\* C29  If every started read and every started image load fires its load or its error
\* callback, then from every state where isLoading is true the page reaches a state
\* where it is false.
LoadingEventuallyCleared == isLoading ~> ~isLoading

\* the flag is up with a grading call in flight, and it has come down after a grading
\* call whose image did not load
LoadingEventuallyClearedWitness ==
    /\ ~isLoading
    /\ toast = "Image Load Error"
    /\ originalDataUrl # 0
    /\ gradings = <<>>
    /\ imports = <<>>

====
